---- MODULE Spec2Model ----
(***************************************************************************)
(* Model of program_10.py: daily streamflow statistics.                    *)
(*                                                                         *)
(* A DataFrame with a DatetimeIndex is a sequence of rows in index order.  *)
(* A date is its day number (days since 1970-01-01).  A float is a record  *)
(* [k, n, d]: k = "num" is the rational n/d (d > 0); k = "nan", "inf" and  *)
(* "ninf" are the IEEE values numpy produces instead of raising.           *)
(***************************************************************************)
EXTENDS Integers, Sequences, FiniteSets

VARIABLES
    pc,             \* position of the run
    raw,            \* the frame read_csv/set_index produced (ReadData, l.40-45)
    DataDF,         \* the caller's DataDF[file]
    MissingValues,  \* the caller's MissingValues[file]
    startDate,      \* arguments of the last ClipData call
    endDate,
    argDF,          \* the frame object passed to the last ClipData call
    argMissing,     \* the caller's MissingValues[file] before that call
    WYDataDF,       \* annual table
    MoDataDF,       \* monthly table
    MonthlyAverages,
    Qvalues,        \* argument of the metric functions
    stdStats,       \* mean, max, median, coefficient of variation, skew
    Tqmean,
    RBindex,
    val7Q,
    median3x

vars == <<pc, raw, DataDF, MissingValues, startDate, endDate, argDF, argMissing,
          WYDataDF, MoDataDF, MonthlyAverages, Qvalues, stdStats, Tqmean,
          RBindex, val7Q, median3x>>

----------------------------------------------------------------------------
(* Floats *)

NaN == [k |-> "nan", n |-> 0, d |-> 1]
PosInf == [k |-> "inf", n |-> 0, d |-> 1]
NegInf == [k |-> "ninf", n |-> 0, d |-> 1]
None == [k |-> "none", n |-> 0, d |-> 1]      \* not computed yet
Num(a, b) == [k |-> "num", n |-> a, d |-> b]
F(v) == Num(v, 1)

IsNaN(x) == x.k = "nan"
IsNum(x) == x.k = "num"

\* Faulty variant (sensitivity of the properties): a zero denominator guarded with a result of 0.
DivideOrZero(a, b) ==
    IF b = 0 THEN F(0) ELSE IF b > 0 THEN Num(a, b) ELSE Num(-a, -b)

\* numpy's true division of two integer-valued scalars: never raises.
Divide(a, b) ==
    IF b = 0 THEN (IF a = 0 THEN NaN ELSE IF a > 0 THEN PosInf ELSE NegInf)
    ELSE IF b > 0 THEN Num(a, b) ELSE Num(-a, -b)

\* Comparisons of finite floats; a comparison with NaN is False.
FEq(x, y) == IsNum(x) /\ IsNum(y) /\ x.n * y.d = y.n * x.d
FLt(x, y) == IsNum(x) /\ IsNum(y) /\ x.n * y.d < y.n * x.d
FLe(x, y) == IsNum(x) /\ IsNum(y) /\ x.n * y.d <= y.n * x.d
\* The same float: the same special value, or equal numbers.
Same(x, y) == IF IsNum(x) /\ IsNum(y) THEN FEq(x, y) ELSE x.k = y.k

Abs(i) == IF i < 0 THEN -i ELSE i
Sign(i) == IF i < 0 THEN -1 ELSE IF i > 0 THEN 1 ELSE 0

----------------------------------------------------------------------------
(* Dates: the proleptic Gregorian calendar pandas uses *)

DateOrd(y, m, d) ==
    LET yy  == IF m <= 2 THEN y - 1 ELSE y
        era == yy \div 400
        yoe == yy - era * 400
        mp  == IF m > 2 THEN m - 3 ELSE m + 9
        doy == (153 * mp + 2) \div 5 + d - 1
        doe == yoe * 365 + yoe \div 4 - yoe \div 100 + doy
    IN  era * 146097 + doe - 719468

Civil(z) ==
    LET zz  == z + 719468
        era == zz \div 146097
        doe == zz - era * 146097
        yoe == (doe - doe \div 1460 + doe \div 36524 - doe \div 146096) \div 365
        doy == doe - (365 * yoe + yoe \div 4 - yoe \div 100)
        mp  == (5 * doy + 2) \div 153
        dd  == doy - (153 * mp + 2) \div 5 + 1
        mm  == IF mp < 10 THEN mp + 3 ELSE mp - 9
    IN  [y |-> yoe + era * 400 + (IF mm <= 2 THEN 1 ELSE 0), m |-> mm, d |-> dd]

\* Monday = 0 ... Sunday = 6 (1970-01-01 was a Thursday).
Weekday(z) == (z + 3) % 7

----------------------------------------------------------------------------
(* Series helpers.  A Series is a sequence of rows [Date, Discharge]; the   *)
(* discharge of a valid row is an integer-valued float (d = 1).             *)

Window == 7

Val(r) == r.Discharge.n

\* Series.dropna()
DropNaSeries(Q) == SelectSeq(Q, LAMBDA r: ~IsNaN(r.Discharge))

\* Series.isna().sum()
CountNaN(df) == Cardinality({i \in 1..Len(df) : IsNaN(df[i].Discharge)})

RECURSIVE SumVals(_)
SumVals(V) == IF V = <<>> THEN 0 ELSE Val(Head(V)) + SumVals(Tail(V))

RECURSIVE SumSquares(_)
SumSquares(V) == IF V = <<>> THEN 0 ELSE Val(Head(V)) * Val(Head(V)) + SumSquares(Tail(V))

\* Faulty variant (sensitivity of the properties): the abs() of l.102 left out.
RECURSIVE PathLengthSigned(_)
PathLengthSigned(V) ==
    IF Len(V) <= 1 THEN 0
    ELSE (Val(V[2]) - Val(V[1])) + PathLengthSigned(Tail(V))

\* Series.diff() then abs() then sum(): the first row contributes nothing.
RECURSIVE PathLength(_)
PathLength(V) ==
    IF Len(V) <= 1 THEN 0
    ELSE Abs(Val(V[2]) - Val(V[1])) + PathLength(Tail(V))

\* The k-th smallest value of V (1 <= k <= Len(V)).
Kth(V, k) ==
    CHOOSE v \in {Val(V[i]) : i \in 1..Len(V)} :
        /\ Cardinality({i \in 1..Len(V) : Val(V[i]) < v}) < k
        /\ Cardinality({i \in 1..Len(V) : Val(V[i]) <= v}) >= k

\* Series.mean(), .max(), .median(): NaN skipped, NaN when nothing is left.
Mean(Q) == LET V == DropNaSeries(Q) IN Divide(SumVals(V), Len(V))

Max(Q) ==
    LET V == DropNaSeries(Q)
    IN  IF V = <<>> THEN NaN
        ELSE F(CHOOSE v \in {Val(V[i]) : i \in 1..Len(V)} :
                   \A j \in 1..Len(V) : Val(V[j]) <= v)

Median(Q) ==
    LET V == DropNaSeries(Q)
        n == Len(V)
    IN  IF n = 0 THEN NaN
        ELSE IF n % 2 = 1 THEN F(Kth(V, (n + 1) \div 2))
        ELSE Num(Kth(V, n \div 2) + Kth(V, n \div 2 + 1), 2)

\* (std / mean) * 100 with the sample standard deviation (ddof = 1).  The
\* value is irrational in general: a finite value x is carried as the
\* rational sign(x) * x^2.
CoeffVar(Q) ==
    LET V  == DropNaSeries(Q)
        n  == Len(V)
        S  == SumVals(V)
        ss == n * SumSquares(V) - S * S        \* n(n-1) * variance
    IN  IF n <= 1 THEN NaN
        ELSE IF S = 0 THEN (IF ss = 0 THEN NaN ELSE PosInf)
        ELSE Num(Sign(S) * 10000 * n * ss, (n - 1) * S * S)

RECURSIVE GCD(_, _)
GCD(a, b) == IF b = 0 THEN a ELSE GCD(b, a % b)

\* The deviations n*v - S of the rows from the mean, times n.
Deviations(V) == [i \in 1..Len(V) |-> Len(V) * Val(V[i]) - SumVals(V)]

RECURSIVE GCDAll(_)
GCDAll(ds) == IF ds = <<>> THEN 0 ELSE GCD(Abs(Head(ds)), GCDAll(Tail(ds)))

RECURSIVE SumPow(_, _, _)
SumPow(ds, g, p) ==
    IF ds = <<>> THEN 0
    ELSE LET dv == Head(ds) \div g
         IN  (IF p = 2 THEN dv * dv ELSE dv * dv * dv) + SumPow(Tail(ds), g, p)

\* scipy.stats.skew(x) (biased, NaN propagated): m3 / m2^1.5, carried as
\* sign(x) * x^2; 0 when the second moment is 0.  The skewness does not
\* depend on the scale of the deviations: their common factor g is taken out.
Skew(Q) ==
    LET n  == Len(Q)
        ds == Deviations(Q)
        g  == GCDAll(ds)
        d2 == SumPow(ds, g, 2)
        d3 == SumPow(ds, g, 3)
    IN  IF n = 0 \/ CountNaN(Q) > 0 THEN NaN
        ELSE IF g = 0 THEN F(0)
        ELSE Num(Sign(d3) * n * d3 * d3, d2 * d2 * d2)

----------------------------------------------------------------------------
(* The metric functions *)

\* Faulty variant (sensitivity of the properties): >= for the > of l.85.
CalcTqmeanAtLeast(Q) ==
    LET V   == DropNaSeries(Q)
        n   == Len(V)
        S   == SumVals(V)
        cnt == Cardinality({i \in 1..n : Val(V[i]) * n >= S})
    IN  Divide(cnt, n)

\* l.81-87
CalcTqmean(Q) ==
    LET V   == DropNaSeries(Q)
        n   == Len(V)
        S   == SumVals(V)
        cnt == Cardinality({i \in 1..n : Val(V[i]) * n > S})
    IN  Divide(cnt, n)

\* l.98-107
CalcRBindex(Q) ==
    LET V == DropNaSeries(Q)
    IN  Divide(PathLength(V), SumVals(V))

\* Sum of the w rows ending at row i.
WindowSum(V, i, w) == SumVals(SubSeq(V, i - w + 1, i))

\* l.118-124: rolling(window = 7) counts rows of the series it is given.
Calc7Q(Q) ==
    LET V    == DropNaSeries(Q)
        ends == Window..Len(V)
    IN  IF ends = {} THEN NaN
        ELSE LET e == CHOOSE i \in ends :
                          \A j \in ends : WindowSum(V, i, Window) <= WindowSum(V, j, Window)
             IN  Num(WindowSum(V, e, Window), Window)

\* l.134-146: a comparison with a NaN median is False.
CalcExceed3TimesMedian(Q) ==
    LET V         == DropNaSeries(Q)
        med       == Median(V)
        m3x_value == IF IsNum(med) THEN Num(3 * med.n, med.d) ELSE med
    IN  Cardinality({i \in 1..Len(V) : FLt(m3x_value, V[i].Discharge)})

----------------------------------------------------------------------------
(* Frames.  A row of DataDF is [Date, Discharge, Quality]; agency_cd and   *)
(* site_no are the same in every row of a station's file.                  *)

SiteNo == 3335000

\* Faulty variant (sensitivity of the properties): the dropna() of l.56 left out.
DropNaFrameKeepsAll(df) == df

\* DataFrame.dropna(): a row with NaN in any column goes.
DropNaFrame(df) == SelectSeq(df, LAMBDA r: ~IsNaN(r.Discharge) /\ r.Quality # "nan")

\* DataDF["Discharge"]
Column(df) == [i \in 1..Len(df) |-> [Date |-> df[i].Date, Discharge |-> df[i].Discharge]]

HasNegative(df) == \E i \in 1..Len(df) : FLt(df[i].Discharge, F(0))

\* l.47-50: DataDF["Discharge"][i] = np.NaN indexes the date-indexed column by
\* the negative VALUE i.  No date equals it: depending on the pandas build the
\* statement raises (TypeError: cannot do index indexing on DatetimeIndex with
\* these indexers) or enlarges a temporary Series; the frame is never changed.
NegativeLoopOutcomes(df) == IF HasNegative(df) THEN {"raise", "unchanged"} ELSE {"unchanged"}

\* l.52-58, what ReadData returns when the loop did not raise.
ReadDataResult(df) == <<DropNaFrame(df), CountNaN(df)>>

\* Faulty variant (sensitivity of the properties): the missing values counted before the frame is clipped.
ClipDataCountsInput(df, s, e) ==
    <<SelectSeq(df, LAMBDA r: s <= r.Date /\ r.Date <= e), CountNaN(df)>>

\* l.65-71: .loc[startDate:endDate] on a sorted DatetimeIndex, both ends
\* inclusive; the result is a new frame.
ClipDataResult(df, s, e) ==
    LET clipped == SelectSeq(df, LAMBDA r: s <= r.Date /\ r.Date <= e)
    IN  <<clipped, CountNaN(clipped)>>

----------------------------------------------------------------------------
(* resample: bins [edge, next edge), labelled by their left edge, for every *)
(* edge from the one at or before the first row to the one at or before the *)
(* last row.                                                               *)

\* Faulty variant (sensitivity of the properties): 'AS' for 'AS-OCT', the year starting in January.
WaterYearStartJanuary(z) == DateOrd(Civil(z).y, 1, 1)

\* YearBegin(month = 10): rollback and next edge.
WaterYearStart(z) ==
    LET c == Civil(z) IN DateOrd(IF c.m >= 10 THEN c.y ELSE c.y - 1, 10, 1)

NextWaterYear(label) == DateOrd(Civil(label).y + 1, 10, 1)

\* BusinessMonthBegin: the first weekday of the month.
BMonthBegin(y, m) ==
    LET first == DateOrd(y, m, 1)
        wd    == Weekday(first)
    IN  IF wd = 5 THEN first + 2 ELSE IF wd = 6 THEN first + 1 ELSE first

BMSRollback(z) ==
    LET c == Civil(z)
    IN  IF z >= BMonthBegin(c.y, c.m) THEN BMonthBegin(c.y, c.m)
        ELSE IF c.m = 1 THEN BMonthBegin(c.y - 1, 12)
        ELSE BMonthBegin(c.y, c.m - 1)

NextBMS(label) ==
    LET c == Civil(label)
    IN  IF c.m = 12 THEN BMonthBegin(c.y + 1, 1) ELSE BMonthBegin(c.y, c.m + 1)

RECURSIVE AnnualEdges(_, _)
AnnualEdges(edge, last) ==
    IF edge > last THEN <<>> ELSE <<edge>> \o AnnualEdges(NextWaterYear(edge), last)

RECURSIVE MonthlyEdges(_, _)
MonthlyEdges(edge, last) ==
    IF edge > last THEN <<>> ELSE <<edge>> \o MonthlyEdges(NextBMS(edge), last)

\* The rows of one bin.
Bin(df, edge, next) == SelectSeq(df, LAMBDA r: edge <= r.Date /\ r.Date < next)

\* The mean of the group's site_no column.
SiteMean(grp) == IF grp = <<>> THEN NaN ELSE F(SiteNo)

\* l.169-178, one row of WYDataDF.
AnnualRow(edge, grp) ==
    LET Q == Column(grp)
    IN  [Date       |-> edge,
         site_no    |-> SiteMean(grp),
         MeanFlow   |-> Mean(Q),
         PeakFlow   |-> Max(Q),
         MedianFlow |-> Median(Q),
         CoeffVar   |-> CoeffVar(Q),
         Skew       |-> Skew(Q),
         Tqmean     |-> CalcTqmean(Q),
         RBindex    |-> CalcRBindex(Q),
         Q7         |-> Calc7Q(Q),
         Median3x   |-> F(CalcExceed3TimesMedian(Q))]

\* l.200-204, one row of MoDataDF.
MonthlyRow(edge, grp) ==
    LET Q == Column(grp)
    IN  [Date     |-> edge,
         site_no  |-> SiteMean(grp),
         MeanFlow |-> Mean(Q),
         CoeffVar |-> CoeffVar(Q),
         Tqmean   |-> CalcTqmean(Q),
         RBindex  |-> CalcRBindex(Q)]

\* Faulty variant (sensitivity of the properties): groupby semantics, a bin without rows gets no row.
AnnualTableSkipsEmpty(df) ==
    IF df = <<>> THEN <<>>
    ELSE LET edges == AnnualEdges(WaterYearStart(df[1].Date), df[Len(df)].Date)
             kept  == SelectSeq(edges, LAMBDA e: Bin(df, e, NextWaterYear(e)) # <<>>)
         IN  [i \in 1..Len(kept) |->
                 AnnualRow(kept[i], Bin(df, kept[i], NextWaterYear(kept[i])))]

\* l.157-180
AnnualTable(df) ==
    IF df = <<>> THEN <<>>
    ELSE LET edges == AnnualEdges(WaterYearStart(df[1].Date), df[Len(df)].Date)
         IN  [i \in 1..Len(edges) |->
                 AnnualRow(edges[i], Bin(df, edges[i], NextWaterYear(edges[i])))]

\* l.190-206
MonthlyTable(df) ==
    IF df = <<>> THEN <<>>
    ELSE LET edges == MonthlyEdges(BMSRollback(df[1].Date), df[Len(df)].Date)
         IN  [i \in 1..Len(edges) |->
                 MonthlyRow(edges[i], Bin(df, edges[i], NextBMS(edges[i])))]

----------------------------------------------------------------------------
(* GetMonthlyAverages *)

\* Rational addition of two finite floats.
FAdd(x, y) == Num(x.n * y.d + y.n * x.d, x.d * y.d)

RECURSIVE FSum(_)
FSum(fs) == IF fs = <<>> THEN F(0) ELSE FAdd(Head(fs), FSum(Tail(fs)))

\* Series.mean() of a sequence of floats: NaN skipped; an infinite entry
\* makes the sum infinite, opposite infinities make it NaN.
FMean(fs) ==
    LET fin == SelectSeq(fs, IsNum)
        pos == \E i \in 1..Len(fs) : fs[i].k = "inf"
        neg == \E i \in 1..Len(fs) : fs[i].k = "ninf"
        cnt == Cardinality({i \in 1..Len(fs) : ~IsNaN(fs[i])})
        tot == FSum(fin)
    IN  IF cnt = 0 \/ (pos /\ neg) THEN NaN
        ELSE IF pos THEN PosInf
        ELSE IF neg THEN NegInf
        ELSE Num(tot.n, tot.d * cnt)

\* Faulty variant (sensitivity of the properties): the offsets of a table whose first row is January.
monthFromJanuary == <<0, 1, 2, 3, 4, 5, 6, 7, 8, 9, 10, 11>>

\* l.224
month == <<3, 4, 5, 6, 7, 8, 9, 10, 11, 0, 1, 2>>

\* col[start::12]: the entries at the 0-based positions start, start + 12, ...
RECURSIVE Stride(_, _, _)
Stride(tbl, col, start) ==
    IF start >= Len(tbl) THEN <<>>
    ELSE <<tbl[start + 1][col]>> \o Stride(tbl, col, start + 12)

\* l.232-237, row i (0-based) of MonthlyAverages.
AverageRow(tbl, i) ==
    [site_no  |-> FMean(Stride(tbl, "site_no", 0)),
     MeanFlow |-> FMean(Stride(tbl, "MeanFlow", month[i + 1])),
     CoeffVar |-> FMean(Stride(tbl, "CoeffVar", month[i + 1])),
     Tqmean   |-> FMean(Stride(tbl, "Tqmean", month[i + 1])),
     RBindex  |-> FMean(Stride(tbl, "RBindex", month[i + 1]))]

\* l.228-239: a frame indexed 1..12.
MonthlyAveragesTable(tbl) == [k \in 1..12 |-> AverageRow(tbl, k - 1)]

----------------------------------------------------------------------------
(* Inputs *)

MaxRows == 3        \* rows of a station file
MaxDays == 4        \* days of a short period
MaxMonths == 13     \* rows of a monthly table

\* Dates a file may hold: around two water-year boundaries, a month that
\* starts on a Saturday (1975-03-01), and a date two water years later.
FileDates ==
    {DateOrd(1974, 9, 30), DateOrd(1974, 10, 1), DateOrd(1975, 3, 1),
     DateOrd(1975, 9, 30), DateOrd(1975, 10, 1), DateOrd(1977, 10, 3)}

\* What a row may hold: a discharge with its quality flag, the "Eqp" line
\* (discharge read as NaN, no quality field), a discharge without a flag.
FileCells ==
    {[Discharge |-> F(v), Quality |-> "A"] : v \in {-1, 0, 1}}
    \cup {[Discharge |-> NaN, Quality |-> "nan"], [Discharge |-> F(1), Quality |-> "nan"]}

RECURSIVE SortedDates(_)
SortedDates(D) ==
    IF D = {} THEN <<>>
    ELSE LET lo == CHOOSE x \in D : \A y \in D : x <= y
         IN  <<lo>> \o SortedDates(D \ {lo})

\* The frame with the dates D in ascending order and the cells f.
FrameOf(D, f) ==
    LET ds == SortedDates(D)
    IN  [i \in 1..Len(ds) |->
            [Date |-> ds[i], Discharge |-> f[ds[i]].Discharge, Quality |-> f[ds[i]].Quality]]

Frames(limit) ==
    {FrameOf(D, f) : <<D, f>> \in
        UNION {{<<D, f>> : f \in [D -> FileCells]} :
                 D \in {X \in SUBSET FileDates : Cardinality(X) <= limit}}}

\* The driver's range (l.271) and two narrower ones.
ClipStarts == {DateOrd(1969, 10, 1), DateOrd(1974, 10, 1), DateOrd(1975, 10, 1)}
ClipEnds == {DateOrd(2019, 9, 30), DateOrd(1975, 9, 30)}

\* A short period: some of the days 1..limit, each with a discharge or NaN.
DayCells == {NaN} \cup {F(v) : v \in {-1, 0, 1, 2}}

SeriesOf(D, f) ==
    LET ds == SortedDates(D)
    IN  [i \in 1..Len(ds) |-> [Date |-> ds[i], Discharge |-> f[ds[i]]]]

ShortSeries(limit) ==
    {SeriesOf(D, f) : <<D, f>> \in
        UNION {{<<D, f>> : f \in [D -> DayCells]} : D \in SUBSET (1..limit)}}

\* A period one day longer than the rolling window, every day present.
LongSeries ==
    {SeriesOf(1..(Window + 1), f) : f \in [1..(Window + 1) -> {NaN, F(1), F(2)}]}

\* The periods of the documented examples.
ExampleSeries ==
    {SeriesOf(1..Len(vs), [i \in 1..Len(vs) |-> F(vs[i])]) :
        vs \in {<<10, 20, 30, 15, 25>>, <<10, 12, 8, 8>>}}

\* Monthly tables: n consecutive months from month m0 of 1969, every row
\* RowA but the rows i and j.
RowA == [site_no |-> F(SiteNo), MeanFlow |-> F(1), CoeffVar |-> F(4),
         Tqmean |-> Num(1, 2), RBindex |-> F(0)]
RowB == [site_no |-> F(SiteNo), MeanFlow |-> F(2), CoeffVar |-> F(9),
         Tqmean |-> Num(1, 3), RBindex |-> F(1)]
GapRow == [site_no |-> NaN, MeanFlow |-> NaN, CoeffVar |-> NaN,
           Tqmean |-> NaN, RBindex |-> NaN]

Labelled(edge, r) ==
    [Date |-> edge, site_no |-> r.site_no, MeanFlow |-> r.MeanFlow,
     CoeffVar |-> r.CoeffVar, Tqmean |-> r.Tqmean, RBindex |-> r.RBindex]

RECURSIVE MonthLabels(_, _)
MonthLabels(edge, n) ==
    IF n = 0 THEN <<>> ELSE <<edge>> \o MonthLabels(NextBMS(edge), n - 1)

TableOf(m0, n, i, ri, j, rj) ==
    LET ls == MonthLabels(BMonthBegin(1969, m0), n)
    IN  [p \in 1..n |-> Labelled(ls[p], IF p = i THEN ri ELSE IF p = j THEN rj ELSE RowA)]

MonthlyTables(limit) ==
    {TableOf(t[1], t[2], t[3], t[4], t[5], t[6]) :
        t \in {u \in (1..12) \X (0..limit) \X (1..limit) \X {RowA, RowB, GapRow}
                      \X (1..limit) \X {RowA, RowB, GapRow} :
                  u[3] <= u[5] /\ u[5] <= u[2] + 1}}

NoStats == [MeanFlow |-> None, PeakFlow |-> None, MedianFlow |-> None,
            CoeffVar |-> None, Skew |-> None]

----------------------------------------------------------------------------
(* The driver, l.267-283 *)

Init ==
    /\ pc = "start"
    /\ raw \in Frames(MaxRows)
    /\ DataDF = <<>>
    /\ MissingValues = 0
    /\ startDate = 0
    /\ endDate = 0
    /\ argDF = <<>>
    /\ argMissing = 0
    /\ WYDataDF = <<>>
    /\ MoDataDF = <<>>
    /\ MonthlyAverages = <<>>
    /\ Qvalues = <<>>
    /\ stdStats = NoStats
    /\ Tqmean = None
    /\ RBindex = None
    /\ val7Q = None
    /\ median3x = None

\* l.24-58
ReadData ==
    /\ pc = "start"
    /\ \E o \in NegativeLoopOutcomes(raw) :
          IF o = "raise"
          THEN /\ pc' = "failed"
               /\ UNCHANGED <<DataDF, MissingValues>>
          ELSE /\ pc' = "read"
               /\ DataDF' = ReadDataResult(raw)[1]
               /\ MissingValues' = ReadDataResult(raw)[2]
    /\ UNCHANGED <<raw, startDate, endDate, argDF, argMissing, WYDataDF, MoDataDF,
                   MonthlyAverages, Qvalues, stdStats, Tqmean, RBindex, val7Q, median3x>>

\* l.60-71, called as in l.271.
ClipData ==
    /\ pc = "read"
    /\ \E s \in ClipStarts, e \in ClipEnds :
          /\ startDate' = s
          /\ endDate' = e
          /\ DataDF' = ClipDataResult(DataDF, s, e)[1]
          /\ MissingValues' = ClipDataResult(DataDF, s, e)[2]
    /\ argDF' = DataDF
    /\ argMissing' = MissingValues
    /\ pc' = "clipped"
    /\ UNCHANGED <<raw, WYDataDF, MoDataDF, MonthlyAverages, Qvalues, stdStats,
                   Tqmean, RBindex, val7Q, median3x>>

\* l.148-180, called as in l.275.
GetAnnualStatistics ==
    /\ pc = "clipped"
    /\ WYDataDF' = AnnualTable(DataDF)
    /\ pc' = "annual"
    /\ UNCHANGED <<raw, DataDF, MissingValues, startDate, endDate, argDF, argMissing,
                   MoDataDF, MonthlyAverages, Qvalues, stdStats, Tqmean, RBindex,
                   val7Q, median3x>>

\* l.182-206, called as in l.283.
GetMonthlyStatistics ==
    /\ pc = "annual"
    /\ MoDataDF' = MonthlyTable(DataDF)
    /\ pc' = "monthly"
    /\ UNCHANGED <<raw, DataDF, MissingValues, startDate, endDate, argDF, argMissing,
                   WYDataDF, MonthlyAverages, Qvalues, stdStats, Tqmean, RBindex,
                   val7Q, median3x>>

\* l.218-239, called as in l.286.
GetMonthlyAverages ==
    /\ pc = "monthly"
    /\ MonthlyAverages' = MonthlyAveragesTable(MoDataDF)
    /\ pc' = "averaged"
    /\ UNCHANGED <<raw, DataDF, MissingValues, startDate, endDate, argDF, argMissing,
                   WYDataDF, MoDataDF, Qvalues, stdStats, Tqmean, RBindex, val7Q,
                   median3x>>

Next ==
    \/ ReadData
    \/ ClipData
    \/ GetAnnualStatistics
    \/ GetMonthlyStatistics
    \/ GetMonthlyAverages

Spec == Init /\ [][Next]_vars

----------------------------------------------------------------------------
(* ClipData on any date-ordered series, then on its own result *)

InitClip ==
    /\ pc = "read"
    /\ raw \in Frames(MaxRows)
    /\ DataDF = raw
    /\ MissingValues = 0
    /\ startDate = 0
    /\ endDate = 0
    /\ argDF = <<>>
    /\ argMissing = 0
    /\ WYDataDF = <<>>
    /\ MoDataDF = <<>>
    /\ MonthlyAverages = <<>>
    /\ Qvalues = <<>>
    /\ stdStats = NoStats
    /\ Tqmean = None
    /\ RBindex = None
    /\ val7Q = None
    /\ median3x = None

\* l.60-71 again, on the frame the first call returned and the same range.
ClipAgain ==
    /\ pc = "clipped"
    /\ DataDF' = ClipDataResult(DataDF, startDate, endDate)[1]
    /\ MissingValues' = ClipDataResult(DataDF, startDate, endDate)[2]
    /\ argDF' = DataDF
    /\ argMissing' = MissingValues
    /\ pc' = "reclipped"
    /\ UNCHANGED <<raw, startDate, endDate, WYDataDF, MoDataDF, MonthlyAverages,
                   Qvalues, stdStats, Tqmean, RBindex, val7Q, median3x>>

NextClip == ClipData \/ ClipAgain

SpecClip == InitClip /\ [][NextClip]_vars

----------------------------------------------------------------------------
(* The statistics of one period, in the order of l.170-178 *)

InitMetric ==
    /\ pc = "period"
    /\ Qvalues \in ShortSeries(MaxDays) \cup LongSeries \cup ExampleSeries
    /\ raw = <<>>
    /\ DataDF = <<>>
    /\ MissingValues = 0
    /\ startDate = 0
    /\ endDate = 0
    /\ argDF = <<>>
    /\ argMissing = 0
    /\ WYDataDF = <<>>
    /\ MoDataDF = <<>>
    /\ MonthlyAverages = <<>>
    /\ stdStats = NoStats
    /\ Tqmean = None
    /\ RBindex = None
    /\ val7Q = None
    /\ median3x = None

\* l.170-174
StandardStatistics ==
    /\ pc = "period"
    /\ stdStats' = [MeanFlow |-> Mean(Qvalues), PeakFlow |-> Max(Qvalues),
                    MedianFlow |-> Median(Qvalues), CoeffVar |-> CoeffVar(Qvalues),
                    Skew |-> Skew(Qvalues)]
    /\ pc' = "stats"
    /\ UNCHANGED <<raw, DataDF, MissingValues, startDate, endDate, argDF, argMissing,
                   WYDataDF, MoDataDF, MonthlyAverages, Qvalues, Tqmean, RBindex,
                   val7Q, median3x>>

\* l.175
ApplyCalcTqmean ==
    /\ pc = "stats"
    /\ Tqmean' = CalcTqmean(Qvalues)
    /\ pc' = "tqmean"
    /\ UNCHANGED <<raw, DataDF, MissingValues, startDate, endDate, argDF, argMissing,
                   WYDataDF, MoDataDF, MonthlyAverages, Qvalues, stdStats, RBindex,
                   val7Q, median3x>>

\* l.176
ApplyCalcRBindex ==
    /\ pc = "tqmean"
    /\ RBindex' = CalcRBindex(Qvalues)
    /\ pc' = "rbindex"
    /\ UNCHANGED <<raw, DataDF, MissingValues, startDate, endDate, argDF, argMissing,
                   WYDataDF, MoDataDF, MonthlyAverages, Qvalues, stdStats, Tqmean,
                   val7Q, median3x>>

\* l.177
ApplyCalc7Q ==
    /\ pc = "rbindex"
    /\ val7Q' = Calc7Q(Qvalues)
    /\ pc' = "7q"
    /\ UNCHANGED <<raw, DataDF, MissingValues, startDate, endDate, argDF, argMissing,
                   WYDataDF, MoDataDF, MonthlyAverages, Qvalues, stdStats, Tqmean,
                   RBindex, median3x>>

\* l.178
ApplyCalcExceed3TimesMedian ==
    /\ pc = "7q"
    /\ median3x' = F(CalcExceed3TimesMedian(Qvalues))
    /\ pc' = "done"
    /\ UNCHANGED <<raw, DataDF, MissingValues, startDate, endDate, argDF, argMissing,
                   WYDataDF, MoDataDF, MonthlyAverages, Qvalues, stdStats, Tqmean,
                   RBindex, val7Q>>

NextMetric ==
    \/ StandardStatistics
    \/ ApplyCalcTqmean
    \/ ApplyCalcRBindex
    \/ ApplyCalc7Q
    \/ ApplyCalcExceed3TimesMedian

SpecMetric == InitMetric /\ [][NextMetric]_vars

----------------------------------------------------------------------------
(* GetMonthlyAverages on any table of consecutive months *)

InitAvg ==
    /\ pc = "monthly"
    /\ MoDataDF \in MonthlyTables(MaxMonths)
    /\ raw = <<>>
    /\ DataDF = <<>>
    /\ MissingValues = 0
    /\ startDate = 0
    /\ endDate = 0
    /\ argDF = <<>>
    /\ argMissing = 0
    /\ WYDataDF = <<>>
    /\ MonthlyAverages = <<>>
    /\ Qvalues = <<>>
    /\ stdStats = NoStats
    /\ Tqmean = None
    /\ RBindex = None
    /\ val7Q = None
    /\ median3x = None

NextAvg == GetMonthlyAverages

SpecAvg == InitAvg /\ [][NextAvg]_vars

----------------------------------------------------------------------------
(* Properties *)

AfterAnnual == {"annual", "monthly", "averaged"}
AfterMonthly == {"monthly", "averaged"}

HasDate(df, z) == \E i \in 1..Len(df) : df[i].Date = z

\* The water year labelled Y: Y-10-01 .. (Y+1)-09-30.
InWaterYear(z, Y) == DateOrd(Y, 10, 1) <= z /\ z <= DateOrd(Y + 1, 9, 30)

WaterYearRows(df, Y) == SelectSeq(df, LAMBDA r: InWaterYear(r.Date, Y))

\* The business month labelled L: from L to the day before the next label.
BMonthRows(df, L) == SelectSeq(df, LAMBDA r: L <= r.Date /\ r.Date < NextBMS(L))

MonthNo(z) == Civil(z).y * 12 + Civil(z).m

Constant(V) == \A i, j \in 1..Len(V) : Val(V[i]) = Val(V[j])

\* C1: what ReadData returns holds no negative discharge: every parsed row
\* with a discharge below zero is still a row of the result, its discharge
\* missing.
C1_NegativeBecomesMissing ==
    pc = "read" =>
        /\ \A i \in 1..Len(raw) :
              FLt(raw[i].Discharge, F(0)) =>
                  \E k \in 1..Len(DataDF) :
                      DataDF[k].Date = raw[i].Date /\ IsNaN(DataDF[k].Discharge)
        /\ \A k \in 1..Len(DataDF) : ~FLt(DataDF[k].Discharge, F(0))

\* C2: every observation lies in exactly one emitted water year, the one
\* labelled Y-10-01 with the date in [Y-10-01, (Y+1)-09-30]; 1975-09-30 is in
\* the year labelled 1974 and 1975-10-01 in the year labelled 1975; the row of
\* a year holds the statistics of exactly the observations of that year.
C2_WaterYearGrouping ==
    pc \in AfterAnnual =>
        /\ \A j \in 1..Len(WYDataDF) :
              LET c == Civil(WYDataDF[j].Date)
              IN  /\ c.m = 10 /\ c.d = 1
                  /\ WYDataDF[j] = AnnualRow(WYDataDF[j].Date, WaterYearRows(DataDF, c.y))
        /\ \A i \in 1..Len(DataDF) :
              /\ Cardinality({j \in 1..Len(WYDataDF) :
                     InWaterYear(DataDF[i].Date, Civil(WYDataDF[j].Date).y)}) = 1
              /\ DataDF[i].Date = DateOrd(1975, 9, 30) =>
                     \E j \in 1..Len(WYDataDF) :
                         /\ WYDataDF[j].Date = DateOrd(1974, 10, 1)
                         /\ HasDate(WaterYearRows(DataDF, 1974), DataDF[i].Date)
              /\ DataDF[i].Date = DateOrd(1975, 10, 1) =>
                     \E j \in 1..Len(WYDataDF) :
                         /\ WYDataDF[j].Date = DateOrd(1975, 10, 1)
                         /\ HasDate(WaterYearRows(DataDF, 1975), DataDF[i].Date)

\* Both sides of the 1975 boundary are in the clipped series and two rows
\* with different means were emitted for them.
C2_Witness ==
    /\ pc = "annual"
    /\ HasDate(DataDF, DateOrd(1975, 9, 30))
    /\ HasDate(DataDF, DateOrd(1975, 10, 1))
    /\ \E j, k \in 1..Len(WYDataDF) :
          /\ WYDataDF[j].Date = DateOrd(1974, 10, 1)
          /\ WYDataDF[k].Date = DateOrd(1975, 10, 1)
          /\ ~Same(WYDataDF[j].MeanFlow, WYDataDF[k].MeanFlow)

\* C7 as stated: every emitted annual and monthly row is the row of a period
\* that holds at least one observation.
C7_NoRowForEmptyPeriod ==
    pc \in AfterMonthly =>
        /\ \A j \in 1..Len(WYDataDF) :
              WaterYearRows(DataDF, Civil(WYDataDF[j].Date).y) # <<>>
        /\ \A j \in 1..Len(MoDataDF) : BMonthRows(DataDF, MoDataDF[j].Date) # <<>>

\* C7 amended: the tables hold one row for every period from the period of
\* the first observation to the period of the last one, in chronological
\* order, the periods without observations included; the row of such a
\* period has a NaN mean flow, the row of any other period a number.
C7_RowForEveryPeriodInSpan ==
    pc \in AfterMonthly =>
        /\ (DataDF = <<>>) => (WYDataDF = <<>> /\ MoDataDF = <<>>)
        /\ (DataDF # <<>>) =>
              /\ WYDataDF # <<>> /\ MoDataDF # <<>>
              /\ InWaterYear(DataDF[1].Date, Civil(WYDataDF[1].Date).y)
              /\ InWaterYear(DataDF[Len(DataDF)].Date, Civil(WYDataDF[Len(WYDataDF)].Date).y)
              /\ BMonthRows(<<DataDF[1]>>, MoDataDF[1].Date) # <<>>
              /\ BMonthRows(<<DataDF[Len(DataDF)]>>, MoDataDF[Len(MoDataDF)].Date) # <<>>
        /\ \A j \in 1..Len(WYDataDF) :
              LET c == Civil(WYDataDF[j].Date)
              IN  /\ c.m = 10 /\ c.d = 1
                  /\ j > 1 => c.y = Civil(WYDataDF[j - 1].Date).y + 1
                  /\ IsNaN(WYDataDF[j].MeanFlow) <=> (WaterYearRows(DataDF, c.y) = <<>>)
        /\ \A j \in 1..Len(MoDataDF) :
              LET c == Civil(MoDataDF[j].Date)
              IN  /\ MoDataDF[j].Date = BMonthBegin(c.y, c.m)
                  /\ j > 1 => MonthNo(MoDataDF[j].Date) = MonthNo(MoDataDF[j - 1].Date) + 1
                  /\ IsNaN(MoDataDF[j].MeanFlow) <=> (BMonthRows(DataDF, MoDataDF[j].Date) = <<>>)

\* A water year and a month without observations each have a row.
C7_Witness ==
    /\ pc = "monthly"
    /\ \E j \in 1..Len(WYDataDF) :
          WaterYearRows(DataDF, Civil(WYDataDF[j].Date).y) = <<>> /\ IsNaN(WYDataDF[j].MeanFlow)
    /\ \E j \in 1..Len(MoDataDF) :
          BMonthRows(DataDF, MoDataDF[j].Date) = <<>> /\ IsNaN(MoDataDF[j].MeanFlow)

\* The R-B claim for one emitted row: rb is the row's index, grp its period.
RBNonNegative(rb, grp) == FLe(F(0), rb) /\ (FEq(rb, F(0)) <=> Constant(grp))

\* C5 as stated: in every emitted period with a valid value the R-B index is
\* a number >= 0, and it is 0 exactly when the discharge is constant.
C5_RBNonNegativeZeroIffConstant ==
    pc \in AfterMonthly =>
        /\ \A j \in 1..Len(WYDataDF) :
              LET grp == WaterYearRows(DataDF, Civil(WYDataDF[j].Date).y)
              IN  grp # <<>> => RBNonNegative(WYDataDF[j].RBindex, grp)
        /\ \A j \in 1..Len(MoDataDF) :
              LET grp == BMonthRows(DataDF, MoDataDF[j].Date)
              IN  grp # <<>> => RBNonNegative(MoDataDF[j].RBindex, grp)

\* C5 amended: the same for every emitted period whose total discharge is
\* above zero.
C5_RBNonNegativeWhenTotalPositive ==
    pc \in AfterMonthly =>
        /\ \A j \in 1..Len(WYDataDF) :
              LET grp == WaterYearRows(DataDF, Civil(WYDataDF[j].Date).y)
              IN  SumVals(grp) > 0 => RBNonNegative(WYDataDF[j].RBindex, grp)
        /\ \A j \in 1..Len(MoDataDF) :
              LET grp == BMonthRows(DataDF, MoDataDF[j].Date)
              IN  SumVals(grp) > 0 => RBNonNegative(MoDataDF[j].RBindex, grp)

\* A water year of several days, not constant, with a positive total, and a
\* single-day month with a positive total.
C5_Witness ==
    /\ pc = "monthly"
    /\ \E j \in 1..Len(WYDataDF) :
          LET grp == WaterYearRows(DataDF, Civil(WYDataDF[j].Date).y)
          IN  /\ Len(grp) >= 2 /\ SumVals(grp) > 0 /\ ~Constant(grp)
              /\ FLt(F(0), WYDataDF[j].RBindex)
    /\ \E j \in 1..Len(MoDataDF) :
          LET grp == BMonthRows(DataDF, MoDataDF[j].Date)
          IN  Len(grp) = 1 /\ SumVals(grp) > 0 /\ FEq(MoDataDF[j].RBindex, F(0))

\* C10: no row ReadData returns has a missing field, and the count ClipData
\* returns for a frame ReadData returned is 0.
C10_ClipCountsNoMissing ==
    /\ pc = "read" =>
          \A i \in 1..Len(DataDF) : ~IsNaN(DataDF[i].Discharge) /\ DataDF[i].Quality # "nan"
    /\ pc = "clipped" => MissingValues = 0

\* The file holds a missing discharge inside the clip range, ReadData counted
\* it, and ClipData counted none.
C10_Witness ==
    /\ pc = "clipped"
    /\ \E i \in 1..Len(raw) :
          IsNaN(raw[i].Discharge) /\ startDate <= raw[i].Date /\ raw[i].Date <= endDate
    /\ argMissing > 0
    /\ DataDF # <<>>
    /\ MissingValues = 0

\* C9: ClipData applied to its own result with the same range returns the
\* same frame and the same count, and the frame passed in is as it was.
C9_ClipIdempotent ==
    /\ pc = "clipped" => argDF = raw
    /\ pc = "reclipped" => DataDF = argDF /\ MissingValues = argMissing

\* The first call dropped rows and kept a row with a missing discharge.
C9_Witness ==
    /\ pc = "reclipped"
    /\ Len(DataDF) < Len(raw)
    /\ DataDF # <<>>
    /\ MissingValues > 0

\* The 7-day low flow as C4 states it: the least mean over the runs of 7
\* consecutive calendar days that all have a valid discharge; NaN without
\* such a run.
SevenDayLowFlow(Q) ==
    LET V      == DropNaSeries(Q)
        At(z)  == CHOOSE i \in 1..Len(V) : V[i].Date = z
        Tot(z) == SumVals([k \in 1..Window |-> V[At(z + k - 1)]])
        starts == {V[i].Date : i \in 1..Len(V)}
        full   == {z \in starts : \A k \in 1..Window : HasDate(V, z + k - 1)}
    IN  IF full = {} THEN NaN
        ELSE LET z == CHOOSE x \in full : \A y \in full : Tot(x) <= Tot(y)
             IN  Num(Tot(z), Window)

\* C4: Calc7Q returns the least mean over the windows of 7 consecutive
\* calendar days without a missing day, and NaN when there is no such window.
C4_SevenConsecutiveDays ==
    pc = "done" => Same(val7Q, SevenDayLowFlow(Qvalues))

NoValidValue(Q) == DropNaSeries(Q) = <<>>

\* C6 as stated: with no valid value every metric is NaN, and the R-B index
\* of a period whose total discharge is zero is NaN.
C6_DegenerateIsNaN ==
    pc = "done" =>
        /\ NoValidValue(Qvalues) =>
              /\ \A c \in DOMAIN stdStats : IsNaN(stdStats[c])
              /\ IsNaN(Tqmean) /\ IsNaN(RBindex) /\ IsNaN(val7Q) /\ IsNaN(median3x)
        /\ SumVals(DropNaSeries(Qvalues)) = 0 => IsNaN(RBindex)

\* C6 amended: with no valid value every metric is NaN except the exceedance
\* count, which is 0; the R-B index of a period whose total discharge is zero
\* is not a number: NaN when the day-to-day changes sum to zero as well,
\* infinite otherwise.
C6_DegenerateIsNaNOrZeroCount ==
    pc = "done" =>
        /\ NoValidValue(Qvalues) =>
              /\ \A c \in DOMAIN stdStats : IsNaN(stdStats[c])
              /\ IsNaN(Tqmean) /\ IsNaN(RBindex) /\ IsNaN(val7Q)
              /\ FEq(median3x, F(0))
        /\ SumVals(DropNaSeries(Qvalues)) = 0 =>
              IF Constant(DropNaSeries(Qvalues)) THEN IsNaN(RBindex) ELSE RBindex = PosInf

\* Every metric was computed for a period of days that are all missing.
C6_Witness ==
    /\ pc = "done"
    /\ Len(Qvalues) >= 2
    /\ NoValidValue(Qvalues)
    /\ IsNaN(Tqmean)
    /\ FEq(median3x, F(0))

\* C8: with a valid value, Tqmean is the number of valid values above their
\* mean over the number of valid values, and lies in [0, 1]; it is 2/5 for
\* 10, 20, 30, 15, 25.
C8_TqmeanFraction ==
    (pc \in {"tqmean", "rbindex", "7q", "done"} /\ ~NoValidValue(Qvalues)) =>
        LET V == DropNaSeries(Qvalues)
            above == {i \in 1..Len(V) : FLt(Mean(V), V[i].Discharge)}
        IN  /\ FEq(Tqmean, Num(Cardinality(above), Len(V)))
            /\ FLe(F(0), Tqmean) /\ FLe(Tqmean, F(1))
            /\ [i \in 1..Len(Qvalues) |-> Qvalues[i].Discharge]
                   = <<F(10), F(20), F(30), F(15), F(25)>> => FEq(Tqmean, Num(2, 5))

\* Tqmean was computed for 10, 20, 30, 15, 25.
C8_Witness ==
    /\ pc = "tqmean"
    /\ [i \in 1..Len(Qvalues) |-> Qvalues[i].Discharge]
           = <<F(10), F(20), F(30), F(15), F(25)>>
    /\ FEq(Tqmean, Num(2, 5))

\* The values of column col in the rows of tbl labelled with calendar month m.
MonthValues(tbl, col, m) ==
    LET rows == SelectSeq(tbl, LAMBDA r: Civil(r.Date).m = m)
    IN  [i \in 1..Len(rows) |-> rows[i][col]]

AllColumns == {"site_no", "MeanFlow", "CoeffVar", "Tqmean", "RBindex"}

\* The k-th month of the water year: October, November, ..., September.
WaterYearMonth(k) == ((k + 8) % 12) + 1

\* C3 as stated: row k of the averages holds, for every column, the mean of
\* the rows of the k-th month of the water year, whatever the first month.
C3_WaterYearMonthOrder ==
    pc = "averaged" =>
        /\ DOMAIN MonthlyAverages = 1..12
        /\ \A k \in 1..12 : \A col \in AllColumns :
              Same(MonthlyAverages[k][col], FMean(MonthValues(MoDataDF, col, WaterYearMonth(k))))

\* C3 amended: row k holds, for every column but site_no, the mean of the
\* rows whose calendar month lies k + 2 months after the month of the first
\* row: calendar month k (January first) for a table that starts in October;
\* site_no holds the mean of the rows of the first row's month.
C3_RowsByOffsetFromFirstMonth ==
    pc = "averaged" =>
        /\ DOMAIN MonthlyAverages = 1..12
        /\ \A k \in 1..12 : \A col \in AllColumns :
              LET first == IF MoDataDF = <<>> THEN 10 ELSE Civil(MoDataDF[1].Date).m
                  m     == IF col = "site_no" THEN first ELSE ((first + k + 1) % 12) + 1
              IN  /\ Same(MonthlyAverages[k][col], FMean(MonthValues(MoDataDF, col, m)))
                  /\ (first = 10 /\ col # "site_no") => m = k

\* A table from October with two October rows of different mean flow was
\* averaged.
C3_Witness ==
    /\ pc = "averaged"
    /\ Len(MoDataDF) = 13
    /\ Civil(MoDataDF[1].Date).m = 10
    /\ ~Same(MoDataDF[1].MeanFlow, MoDataDF[13].MeanFlow)
    /\ IsNum(MoDataDF[13].MeanFlow)
    /\ FEq(MonthlyAverages[10].MeanFlow, Num(3, 2))

====
